---------------------------- MODULE Spec2Model ----------------------------
(***************************************************************************)
(* Model of pandas_ta/volume/wb_tsv.py: the Time Segmented Value           *)
(* indicator wb_tsv(close, volume, length, signal, mamode, drift, offset,  *)
(* **kwargs).                                                              *)
(*                                                                         *)
(* One call of wb_tsv is followed through the five blocks of its body      *)
(* (Validate Arguments, Calculate Result, Offset, Handle fills, Name and   *)
(* Prepare DataFrame).  The local names of the function are the variables. *)
(*                                                                         *)
(* Numbers are exact rationals <<n, d>> (d > 0, lowest terms); d = 0       *)
(* encodes the non-finite floats: <<0,0>> is NaN (pandas' null),           *)
(* <<1,0>> is +inf and <<-1,0>> is -inf.  Floating-point rounding is not   *)
(* modelled.  A Series is a function on 0 .. n-1 (a RangeIndex).           *)
(***************************************************************************)
EXTENDS Integers, Sequences, FiniteSets, TLC

VARIABLES
    args,           \* the arguments as the caller gave them (never rebound)
    sign0,          \* what signed_series puts at position 0
    length,         \* local `length` after line 40
    signal,         \* local `signal` after line 41 (an int, never a Series)
    mamode,         \* local `mamode` after line 42
    drift,          \* local `drift` after line 43
    offset,         \* local `offset` after line 44
    signed_volume,  \* local `signed_volume` after line 49
    cvd,            \* local `cvd`
    tsv,            \* local `tsv`
    signal_,        \* local `signal_`
    ratio,          \* local `ratio`
    df,             \* the returned DataFrame
    calls,          \* collaborators invoked by the body, in order
    error,          \* "" or the name of the exception that ended the call
    pc              \* the block of the body that runs next

vars == <<args, sign0, length, signal, mamode, drift, offset, signed_volume,
          cvd, tsv, signal_, ratio, df, calls, error, pc>>

---------------------------------------------------------------------------
(* Bounds of the model *)

SeriesLen == 4      \* points of an enumerated input series
MaxLength == 2      \* enumerated valid `length` arguments are 1 .. MaxLength
MaxSignal == 2      \* enumerated valid `signal` arguments are 1 .. MaxSignal
MaxDrift == 2       \* enumerated valid `drift` arguments are 1 .. MaxDrift
MaxFixLength == 20  \* `length` arguments tried on the 20-point fixture
MaxFixDrift == 3    \* `drift` arguments tried on the 20-point fixture
EpsDen == 4         \* the model's epsilon is 1/EpsDen (see Epsilon)

---------------------------------------------------------------------------
(* Float arithmetic *)

NaN == <<0, 0>>
PosInf == <<1, 0>>
NegInf == <<-1, 0>>

Abs(n) == IF n < 0 THEN -n ELSE n

RECURSIVE GCD(_, _)
GCD(a, b) == IF b = 0 THEN a ELSE GCD(b, a % b)

\* the rational n/d (d # 0) in lowest terms with a positive denominator
Rat(n, d) ==
    LET g == GCD(Abs(n), Abs(d))
        s == IF d < 0 THEN -1 ELSE 1
    IN  <<s * (n \div g), s * (d \div g)>>

Num(k) == <<k, 1>>

isnull(x) == x = NaN
IsFinite(x) == x[2] # 0

Add(a, b) ==
    IF isnull(a) \/ isnull(b) THEN NaN
    ELSE Rat(a[1] * b[2] + b[1] * a[2], a[2] * b[2])

Neg(a) == IF isnull(a) THEN NaN ELSE <<-a[1], a[2]>>

Sub(a, b) == Add(a, Neg(b))

Mul(a, b) ==
    IF isnull(a) \/ isnull(b) THEN NaN
    ELSE Rat(a[1] * b[1], a[2] * b[2])

\* float division: x/0 is +-inf, 0/0 is NaN, nothing raises
Div(a, b) ==
    IF isnull(a) \/ isnull(b) THEN NaN
    ELSE IF b[1] = 0
         THEN (IF a[1] = 0 THEN NaN ELSE IF a[1] > 0 THEN PosInf ELSE NegInf)
         ELSE Rat(a[1] * b[2], a[2] * b[1])

\* x < 0 as pandas compares: False for NaN
LtZero(a) == a[1] < 0

\* |a| < |b| for finite a, b
AbsLess(a, b) == Abs(a[1]) * b[2] < Abs(b[1]) * a[2]

---------------------------------------------------------------------------
(* Series *)

Idx(n) == 0 .. (n - 1)
size(s) == Cardinality(DOMAIN s)
Max(a, b) == IF a > b THEN a ELSE b
EmptySeries == [i \in Idx(0) |-> NaN]

\* a * b of two Series: aligned on the union of the indexes, NaN where one
\* of them has no entry
SeriesMul(a, b) ==
    [i \in Idx(Max(size(a), size(b))) |->
        IF i \in DOMAIN a /\ i \in DOMAIN b THEN Mul(a[i], b[i]) ELSE NaN]

SeriesDiv(a, b) ==
    [i \in Idx(Max(size(a), size(b))) |->
        IF i \in DOMAIN a /\ i \in DOMAIN b THEN Div(a[i], b[i]) ELSE NaN]

\* Series.diff(k)
diff(s, k) ==
    [i \in DOMAIN s |-> IF (i - k) \in DOMAIN s THEN Sub(s[i], s[i - k]) ELSE NaN]

\* Series.shift(k): the value of position i - k moves to position i
shift(s, k) ==
    [i \in DOMAIN s |-> IF (i - k) \in DOMAIN s THEN s[i - k] ELSE NaN]

\* sum of the non-null entries of s at positions lo .. hi
RECURSIVE SumOver(_, _, _)
SumOver(s, lo, hi) ==
    IF hi < lo THEN Num(0)
    ELSE IF isnull(s[hi]) THEN SumOver(s, lo, hi - 1)
         ELSE Add(SumOver(s, lo, hi - 1), s[hi])

\* the positions of the window of size w that ends at i
Window(s, i, w) == {j \in DOMAIN s : i - w < j /\ j <= i}

Observations(s, i, w) == Cardinality({j \in Window(s, i, w) : ~isnull(s[j])})

\* Series.rolling(w).sum(): min_periods is the window size
rolling_sum(s, w) ==
    [i \in DOMAIN s |->
        IF Observations(s, i, w) >= w
        THEN SumOver(s, Max(0, i - w + 1), i)
        ELSE NaN]

\* Series.fillna(value)
fillna(s, v) == [i \in DOMAIN s |-> IF isnull(s[i]) THEN v ELSE s[i]]

RECURSIVE LastValid(_, _)
LastValid(s, i) ==
    IF i \notin DOMAIN s THEN NaN
    ELSE IF ~isnull(s[i]) THEN s[i] ELSE LastValid(s, i - 1)

RECURSIVE NextValid(_, _)
NextValid(s, i) ==
    IF i \notin DOMAIN s THEN NaN
    ELSE IF ~isnull(s[i]) THEN s[i] ELSE NextValid(s, i + 1)

\* Series.fillna(method=m) for the forward and the backward fill
fillna_method(s, m) ==
    [i \in DOMAIN s |->
        IF m = "ffill" THEN LastValid(s, i) ELSE NextValid(s, i)]

---------------------------------------------------------------------------
(* Python values given as arguments: None, an int n, a float n/2 (so that  *)
(* 0.5 and 2.5 can be given), or a str s                                   *)

PyNone == [t |-> "none", n |-> 0, s |-> ""]
PyInt(k) == [t |-> "int", n |-> k, s |-> ""]
PyHalves(h) == [t |-> "float", n |-> h, s |-> ""]
PyStr(x) == [t |-> "str", n |-> 0, s |-> x]

\* bool(x)
Truthy(x) ==
    CASE x.t = "none" -> FALSE
      [] x.t = "str" -> x.s # ""
      [] OTHER -> x.n # 0

\* int(x) of a number: truncation toward zero
PyIntOf(x) ==
    IF x.t = "int" THEN x.n
    ELSE IF x.n >= 0 THEN x.n \div 2 ELSE -((-x.n) \div 2)

\* `x and x > 0` raises TypeError when x is a non-empty str ('>' between
\* str and int); a falsy x short-circuits before the comparison
CompareRaises(x) == Truthy(x) /\ x.t = "str"

\* int(x) if x and x > 0 else default
IntOrDefault(x, default) ==
    IF Truthy(x) /\ x.n > 0 THEN PyIntOf(x) ELSE default

\* the smoothing modes ma() knows by name
Recognized == {"sma", "ema"}

\* a normalization that also replaces the names ma() does not know
RecognizedOrSma(x) == IF x.t = "str" /\ x.s \in Recognized THEN x.s ELSE "sma"

\* mamode if isinstance(mamode, str) else "sma"
StrOrSma(x) == IF x.t = "str" THEN x.s ELSE "sma"

---------------------------------------------------------------------------
(* Collaborators from pandas_ta.utils and pandas_ta.overlap                *)

\* get_drift: a positive integer, 1 when absent or invalid
get_drift(x) == IF x.t = "int" /\ x.n > 0 THEN x.n ELSE 1

\* get_offset: an integer, 0 when absent or invalid
get_offset(x) == IF x.t = "int" THEN x.n ELSE 0

\* signed_series: +1 where the series rose since the previous position, -1
\* where it fell, 0 where it is unchanged; `first` at position 0, where no
\* previous position exists
signed_series(series, first) ==
    [i \in DOMAIN series |->
        IF i = 0 THEN first
        ELSE IF isnull(series[i]) \/ isnull(series[i - 1]) THEN NaN
        ELSE IF series[i][1] * series[i - 1][2] > series[i - 1][1] * series[i][2]
             THEN Num(1)
        ELSE IF series[i][1] * series[i - 1][2] < series[i - 1][1] * series[i][2]
             THEN Num(-1)
        ELSE Num(0)]

\* the epsilon of zero(); the library's is the machine epsilon, the model
\* scales it to 1/EpsDen and gives volumes below it
Epsilon == <<1, EpsDen>>

\* zero(x): x forced to exactly 0 when it is within epsilon of 0
zero(x) == IF IsFinite(x) /\ AbsLess(x, Epsilon) THEN Num(0) ELSE x

\* simple moving average: the mean of a full window of n values
sma(s, n) ==
    [i \in DOMAIN s |->
        IF Observations(s, i, n) >= n
        THEN Div(SumOver(s, Max(0, i - n + 1), i), Num(n))
        ELSE NaN]

\* exponential moving average with alpha = 2 / (n + 1), started at the
\* first non-null value
RECURSIVE ema_at(_, _, _)
ema_at(s, n, i) ==
    IF i \notin DOMAIN s THEN NaN
    ELSE IF isnull(s[i]) THEN NaN
    ELSE LET prev == ema_at(s, n, i - 1)
         IN  IF isnull(prev) THEN s[i]
             ELSE Add(Mul(Rat(2, n + 1), s[i]), Mul(Rat(n - 1, n + 1), prev))

ema(s, n) == [i \in DOMAIN s |-> ema_at(s, n, i)]

\* ma(mode, source, length=n)
ma(mode, s, n) == IF mode = "sma" THEN sma(s, n) ELSE ema(s, n)

---------------------------------------------------------------------------
(* The body of wb_tsv, block by block *)

\* the product without the direction of the close
UnsignedProduct(cl, vol, first) == vol

\* line 47: volume * signed_series(close, 1)
SignedProduct(cl, vol, first) == SeriesMul(vol, signed_series(cl, first))

\* the assignment of line 48 left out
KeepNegatives(sv) == sv

\* line 48: signed_volume[signed_volume < 0] = -signed_volume
NegateNegatives(sv) ==
    [i \in DOMAIN sv |-> IF LtZero(sv[i]) THEN Neg(sv[i]) ELSE sv[i]]

\* line 49: signed_volume.apply(zero) builds a new Series
ApplyZero(sv) == [i \in DOMAIN sv |-> zero(sv[i])]

\* line 49 as a statement: the Series that apply() returns is bound to no
\* name, and signed_volume is what it was
AfterApplyZero(sv) ==
    LET unused == ApplyZero(sv) IN sv

\* lines 47-49
SignedVolume(cl, vol, first) ==
    AfterApplyZero(NegateNegatives(SignedProduct(cl, vol, first)))

\* a difference taken against the position drift ahead
CvdAhead(sv, cl, dr) == SeriesMul(sv, diff(cl, -dr))

\* line 50
Cvd(sv, cl, dr) == SeriesMul(sv, diff(cl, dr))

\* a rolling sum that counts a null cvd as 0
TsvNullAsZero(c, len) == rolling_sum(fillna(c, Num(0)), len)

\* line 52
Tsv(c, len) == rolling_sum(c, len)

\* line 53
SignalLine(mode, t, sig) == ma(mode, t, sig)

\* line 54
Ratio(t, s) == SeriesDiv(t, s)

\* lines 47-54 on a close and a volume Series
Calculated(cl, vol, first, len, sig, mode, dr) ==
    LET sv == SignedVolume(cl, vol, first)
        c == Cvd(sv, cl, dr)
        t == Tsv(c, len)
        s == SignalLine(mode, t, sig)
    IN  [signed_volume |-> sv, cvd |-> c, tsv |-> t, signal_ |-> s,
         ratio |-> Ratio(t, s)]

\* a fill whose result is dropped
FillValueDropped(kw, s) == s

\* lines 63-66 on one Series
FillValue(kw, s) == IF kw.has_fillna THEN fillna(s, kw.fillna) ELSE s

\* lines 67-70 on one Series
FillMethod(kw, s) ==
    IF kw.has_fill_method THEN fillna_method(s, kw.fill_method) ELSE s

\* lines 63-70 on one Series
Filled(kw, s) == FillMethod(kw, FillValue(kw, s))

\* lines 73-76: the three names
Props(len, sig) == <<len, sig>>

\* lines 80-83
DataFrame(t, s, r, len, sig) ==
    [name |-> <<"TSV", Props(len, sig)>>,
     category |-> "volume",
     columns |-> <<<<"TSV", Props(len, sig)>>, <<"TSVs", Props(len, sig)>>,
                   <<"TSVr", Props(len, sig)>>>>,
     tsv |-> t, signal |-> s, ratio |-> r]

NoDataFrame == DataFrame(EmptySeries, EmptySeries, EmptySeries, 0, 0)

---------------------------------------------------------------------------
(* Actions *)

\* lines 40-44
Validate ==
    /\ pc = "validate"
    /\ IF CompareRaises(args.length)
       THEN /\ error' = "TypeError"
            /\ pc' = "done"
            /\ UNCHANGED <<length, signal, mamode, drift, offset, calls>>
       ELSE /\ length' = IntOrDefault(args.length, 18)
            /\ IF CompareRaises(args.signal)
               THEN /\ error' = "TypeError"
                    /\ pc' = "done"
                    /\ UNCHANGED <<signal, mamode, drift, offset, calls>>
               ELSE /\ signal' = IntOrDefault(args.signal, 10)
                    /\ mamode' = StrOrSma(args.mamode)
                    /\ drift' = get_drift(args.drift)
                    /\ offset' = get_offset(args.offset)
                    /\ calls' = calls \o <<<<"get_drift", "drift">>,
                                           <<"get_offset", "offset">>>>
                    /\ pc' = "calculate"
                    /\ UNCHANGED error
    /\ UNCHANGED <<args, sign0, signed_volume, cvd, tsv, signal_, ratio, df>>

\* lines 47-54
Calculate ==
    /\ pc = "calculate"
    /\ IF args.close.none
       THEN \* signed_series(None, 1) fails
            /\ error' = "Exception"
            /\ calls' = Append(calls, <<"signed_series", "close">>)
            /\ pc' = "done"
            /\ UNCHANGED <<signed_volume, cvd, tsv, signal_, ratio>>
       ELSE IF args.volume.none
       THEN \* None * Series
            /\ error' = "TypeError"
            /\ calls' = Append(calls, <<"signed_series", "close">>)
            /\ pc' = "done"
            /\ UNCHANGED <<signed_volume, cvd, tsv, signal_, ratio>>
       ELSE LET r == Calculated(args.close.v, args.volume.v, sign0,
                                length, signal, mamode, drift)
            IN  /\ signed_volume' = r.signed_volume
                /\ cvd' = r.cvd
                /\ tsv' = r.tsv
                /\ signal_' = r.signal_
                /\ ratio' = r.ratio
                /\ calls' = calls \o <<<<"signed_series", "close">>,
                                       <<"zero", "signed_volume">>,
                                       <<"ma", mamode>>>>
                /\ pc' = "offset"
                /\ UNCHANGED error
    /\ UNCHANGED <<args, sign0, length, signal, mamode, drift, offset, df>>

\* lines 57-60.  Line 59 reads `signal`, the int of line 41, where the
\* Series is `signal_`: an int has no shift(), and the call ends there
Offset ==
    /\ pc = "offset"
    /\ IF offset # 0
       THEN /\ tsv' = shift(tsv, offset)
            /\ error' = "AttributeError"
            /\ pc' = "done"
       ELSE /\ pc' = "fill"
            /\ UNCHANGED <<tsv, error>>
    /\ UNCHANGED <<args, sign0, length, signal, mamode, drift, offset,
                   signed_volume, cvd, signal_, ratio, df, calls>>

\* lines 63-70
Fill ==
    /\ pc = "fill"
    /\ tsv' = Filled(args.kwargs, tsv)
    /\ signal_' = Filled(args.kwargs, signal_)
    /\ ratio' = Filled(args.kwargs, ratio)
    /\ pc' = "return"
    /\ UNCHANGED <<args, sign0, length, signal, mamode, drift, offset,
                   signed_volume, cvd, df, calls, error>>

\* lines 73-85
Return ==
    /\ pc = "return"
    /\ df' = DataFrame(tsv, signal_, ratio, length, signal)
    /\ pc' = "done"
    /\ UNCHANGED <<args, sign0, length, signal, mamode, drift, offset,
                   signed_volume, cvd, tsv, signal_, ratio, calls, error>>

Next == Validate \/ Calculate \/ Offset \/ Fill \/ Return

---------------------------------------------------------------------------
(* Initial states: the arguments of the call *)

Given(v) == [none |-> FALSE, v |-> v]
NoneSeries == [none |-> TRUE, v |-> EmptySeries]

NoKwargs ==
    [has_fillna |-> FALSE, fillna |-> NaN,
     has_fill_method |-> FALSE, fill_method |-> ""]

ClosePrices == {Num(1), Num(2), Num(3)}
CloseSeries == [Idx(SeriesLen) -> ClosePrices]

\* a volume below the epsilon of zero() and a negative one
TinyVolume == Rat(1, 2 * EpsDen)
Volumes == {Num(-2), TinyVolume}
VolumeSeries == [Idx(SeriesLen) -> Volumes]

\* the Series of the numbers of a tuple
FromTuple(tp) == [i \in Idx(Len(tp)) |-> Num(tp[i + 1])]

\* the state of the locals before line 40
Start(a, first) ==
    /\ args = a
    /\ sign0 = first
    /\ length = 0
    /\ signal = 0
    /\ mamode = ""
    /\ drift = 0
    /\ offset = 0
    /\ signed_volume = EmptySeries
    /\ cvd = EmptySeries
    /\ tsv = EmptySeries
    /\ signal_ = EmptySeries
    /\ ratio = EmptySeries
    /\ df = NoDataFrame
    /\ calls = << >>
    /\ error = ""
    /\ pc = "validate"

\* every close and volume series, valid length and drift, the defaults
\* else.  Position 0 of the signed series reaches no output (cvd is null
\* there); both values are tried for the shortest window.
Init ==
    \E cl \in CloseSeries, vol \in VolumeSeries,
       len \in 1 .. MaxLength, dr \in 1 .. MaxDrift, first \in {0, 1} :
        /\ (first = 0) => (len = 1 /\ dr = 1)
        /\ Start([close |-> Given(cl), volume |-> Given(vol),
                  length |-> PyInt(len), signal |-> PyInt(MaxSignal),
                  mamode |-> PyNone, drift |-> PyInt(dr), offset |-> PyNone,
                  kwargs |-> NoKwargs], Num(first))

Spec == Init /\ [][Next]_vars

\* a short close and volume series for the calls that vary the parameters
ShortClose == FromTuple(<<2, 3, 1, 3, 3>>)
ShortVolume == FromTuple(<<5, -4, 6, 0, 7>>)

\* what a caller may give for length and signal
IntArgs ==
    {PyNone, PyInt(-1), PyInt(0), PyInt(1), PyInt(2), PyHalves(1),
     PyHalves(5), PyStr(""), PyStr("abc")}
ModeArgs == {PyNone, PyInt(5), PyStr("sma"), PyStr("ema"), PyStr("foo")}
DriftArgs == {PyNone, PyInt(0), PyInt(-1), PyInt(2)}

InitParams ==
    \E len \in IntArgs, sig \in IntArgs, mode \in ModeArgs, dr \in DriftArgs :
        Start([close |-> Given(ShortClose), volume |-> Given(ShortVolume),
               length |-> len, signal |-> sig, mamode |-> mode,
               drift |-> dr, offset |-> PyNone, kwargs |-> NoKwargs], Num(1))

SpecParams == InitParams /\ [][Next]_vars

\* the two volume series of the calls that vary offset and fills
PlainVolumes ==
    {FromTuple(<<5, 5, 5, 5, 5, 5>>), FromTuple(<<3, -2, 4, 1, -1, 2>>)}
TrimTo(s, n) == [i \in Idx(n) |-> s[i]]

OffsetArgs == {PyNone, PyInt(-1), PyInt(1)}
FillValues == {Num(0), Num(7)}
FillMethods == {"ffill", "bfill"}
KwargsSets ==
    {NoKwargs}
    \cup {[has_fillna |-> TRUE, fillna |-> v,
           has_fill_method |-> FALSE, fill_method |-> ""] : v \in FillValues}
    \cup {[has_fillna |-> FALSE, fillna |-> NaN,
           has_fill_method |-> TRUE, fill_method |-> m] : m \in FillMethods}
    \cup {[has_fillna |-> TRUE, fillna |-> v,
           has_fill_method |-> TRUE, fill_method |-> m] :
              v \in FillValues, m \in FillMethods}

\* a non-zero offset is tried without fill options
InitOffsetFill ==
    \E cl \in CloseSeries, vol \in PlainVolumes, off \in OffsetArgs,
       kw \in KwargsSets, len \in 1 .. MaxLength,
       mode \in {PyStr("sma"), PyStr("ema")} :
        /\ (off # PyNone) => (kw = NoKwargs)
        /\ Start([close |-> Given(cl), volume |-> Given(TrimTo(vol, SeriesLen)),
                  length |-> PyInt(len), signal |-> PyInt(MaxSignal),
                  mamode |-> mode, drift |-> PyNone, offset |-> off,
                  kwargs |-> kw], Num(1))

SpecOffsetFill == InitOffsetFill /\ [][Next]_vars

\* the calls whose outputs are compared with those of changed inputs
MixedVolume == FromTuple(<<3, -2, 4, 1, -1, 2>>)
CausalKwargs ==
    {NoKwargs,
     [has_fillna |-> TRUE, fillna |-> Num(7),
      has_fill_method |-> FALSE, fill_method |-> ""],
     [has_fillna |-> FALSE, fillna |-> NaN,
      has_fill_method |-> TRUE, fill_method |-> "ffill"],
     [has_fillna |-> FALSE, fillna |-> NaN,
      has_fill_method |-> TRUE, fill_method |-> "bfill"]}

InitCausal ==
    \E cl \in CloseSeries, off \in OffsetArgs, kw \in CausalKwargs,
       len \in 1 .. MaxLength, mode \in {PyStr("sma"), PyStr("ema")},
       dr \in {PyNone, PyInt(MaxDrift)} :
        /\ (off # PyNone) => (kw = NoKwargs /\ dr = PyNone)
        /\ (dr # PyNone) => (mode = PyStr("sma"))
        /\ Start([close |-> Given(cl),
                  volume |-> Given(TrimTo(MixedVolume, SeriesLen)),
                  length |-> PyInt(len), signal |-> PyInt(MaxSignal),
                  mamode |-> mode, drift |-> dr, offset |-> off,
                  kwargs |-> kw], Num(1))

SpecCausal == InitCausal /\ [][Next]_vars

\* close or volume None, volume empty, or both valid
InitSeries ==
    \E cl \in {NoneSeries} \cup {Given(s) : s \in CloseSeries},
       vol \in {NoneSeries, Given(EmptySeries)}
               \cup {Given(TrimTo(s, SeriesLen)) : s \in PlainVolumes} :
        Start([close |-> cl, volume |-> vol,
               length |-> PyInt(MaxLength), signal |-> PyInt(MaxSignal),
               mamode |-> PyNone, drift |-> PyNone, offset |-> PyNone,
               kwargs |-> NoKwargs], Num(1))

SpecSeries == InitSeries /\ [][Next]_vars

\* the 20-point close series of the default-parameter scenario, with a
\* constant volume of 1000
FixtureClose ==
    FromTuple(<<10, 11, 9, 12, 13, 11, 14, 15, 13, 16,
                18, 17, 19, 20, 18, 21, 22, 20, 23, 24>>)
FixtureVolume == [i \in DOMAIN FixtureClose |-> Num(1000)]

InitFixture ==
    \E len \in {PyNone} \cup {PyInt(k) : k \in 1 .. MaxFixLength},
       dr \in {PyNone} \cup {PyInt(k) : k \in 1 .. MaxFixDrift} :
        Start([close |-> Given(FixtureClose), volume |-> Given(FixtureVolume),
               length |-> len, signal |-> PyNone, mamode |-> PyStr("sma"),
               drift |-> dr, offset |-> PyNone, kwargs |-> NoKwargs], Num(1))

\* every short close series with a constant volume
InitShort ==
    \E cl \in CloseSeries, len \in 1 .. MaxLength, dr \in 1 .. MaxDrift :
        Start([close |-> Given(cl),
               volume |-> Given([i \in Idx(SeriesLen) |-> Num(1000)]),
               length |-> PyInt(len), signal |-> PyInt(MaxSignal),
               mamode |-> PyStr("sma"), drift |-> PyInt(dr),
               offset |-> PyNone, kwargs |-> NoKwargs], Num(1))

InitWarmup == InitFixture \/ InitShort

SpecWarmup == InitWarmup /\ [][Next]_vars

---------------------------------------------------------------------------
(* Properties *)

HasCalculated == error = "" /\ pc \in {"offset", "fill", "return", "done"}
AbsVal(a) == <<Abs(a[1]), a[2]>>
close == args.close.v
volume == args.volume.v

\* C3: after the absolute-value correction every defined entry of
\* signed_volume is >= 0, whatever the sign of the volume, and so the sign
\* of every defined cvd entry is the sign of the price difference alone.
C3_SignedVolumeNonNegative ==
    HasCalculated =>
        /\ \A i \in DOMAIN signed_volume :
              ~isnull(signed_volume[i]) => signed_volume[i][1] >= 0
        /\ \A i \in DOMAIN cvd :
              ~isnull(cvd[i]) => cvd[i][1] * diff(close, drift)[i][1] >= 0

\* a call where the product of line 47 was negative at a position with a
\* negative volume and a rising close, and is positive after line 48
C3_Witness ==
    /\ pc = "done" /\ error = ""
    /\ \E i \in DOMAIN signed_volume :
          /\ i > 0
          /\ LtZero(volume[i])
          /\ LtZero(SignedProduct(close, volume, sign0)[i])
          /\ signed_volume[i][1] > 0
          /\ cvd[i][1] > 0

\* C9: the signed_volume multiplied into cvd is the zero-normalized one:
\* cvd(i) = zero(signed_volume(i)) * (close(i) - close(i - drift)), so an
\* entry within epsilon of zero contributes exactly 0.
C9_SnapToZero ==
    HasCalculated => cvd = Cvd(ApplyZero(signed_volume), close, drift)

C2_Original ==
    HasCalculated =>
        /\ \A i \in DOMAIN tsv : isnull(tsv[i]) <=> i < length - 1
        /\ (close = FixtureClose /\ length = 18 /\ drift = 1) =>
              /\ \A i \in 0 .. 16 : isnull(tsv[i])
              /\ \A i \in 17 .. 19 : IsFinite(tsv[i])

\* C2: with offset 0, no fill options and non-null inputs, tsv is null at
\* every position i < length - 1 + drift and non-null at every position
\* i >= length - 1 + drift (cvd is null on its first drift positions, and a
\* window holding a null has no sum); on the 20-point fixture with
\* length 18 and drift 1, positions 0..17 are null and 18, 19 finite.
C2_WarmUp ==
    HasCalculated =>
        /\ \A i \in DOMAIN tsv : isnull(tsv[i]) <=> i < length - 1 + drift
        /\ (close = FixtureClose /\ length = 18 /\ drift = 1) =>
              /\ \A i \in 0 .. 17 : isnull(tsv[i])
              /\ \A i \in 18 .. 19 : IsFinite(tsv[i])

\* the default-parameter call on the fixture, with position 17 null and
\* positions 18 and 19 holding the sums of cvd(1..18) and cvd(2..19)
C2_Witness ==
    /\ pc = "done" /\ error = ""
    /\ close = FixtureClose /\ args.length = PyNone /\ args.drift = PyNone
    /\ length = 18 /\ drift = 1
    /\ isnull(df.tsv[17])
    /\ df.tsv[18] = Num(13000)
    /\ df.tsv[19] = Num(13000)

\* what the claim expects of length and signal
IntegerOrDefault(x, default) == IF x.t = "int" /\ x.n > 0 THEN x.n ELSE default

\* C5: normalizing length and signal never fails; the effective length is
\* the given value if it is an integer > 0 and 18 otherwise, the effective
\* signal the given value if it is an integer > 0 and 10 otherwise.
C5_Normalization ==
    pc # "validate" =>
        /\ error # "TypeError"
        /\ length = IntegerOrDefault(args.length, 18)
        /\ signal = IntegerOrDefault(args.signal, 10)

\* the modes handed to ma() by the call
ModesPassed == {calls[k][2] : k \in {j \in DOMAIN calls : calls[j][1] = "ma"}}

\* the claim as first stated: ma() gets the given mamode when it is a
\* string naming a recognized mode and "sma" in every other case
C8_Original ==
    HasCalculated =>
        ModesPassed = {IF args.mamode.t = "str" /\ args.mamode.s \in Recognized
                       THEN args.mamode.s ELSE "sma"}

\* C8: ma() gets the given mamode when it is a string, recognized or not,
\* and "sma" when it is absent or not a string; the signal line is what
\* ma() returns for that mode.
C8_PassThrough ==
    HasCalculated =>
        /\ ModesPassed = {IF args.mamode.t = "str" THEN args.mamode.s ELSE "sma"}
        /\ pc = "offset" =>
              \A m \in ModesPassed : signal_ = ma(m, tsv, signal)

\* a call given a string that names no mode, handed on to ma() as it is
C8_Witness ==
    /\ pc = "done" /\ error = ""
    /\ args.mamode = PyStr("foo")
    /\ ModesPassed = {"foo"}
    /\ df.signal = ema(df.tsv, signal)

\* a series that is no valid input: None or empty
Invalid(x) == x.none \/ size(x.v) = 0

Position(entry) ==
    IF \E k \in DOMAIN calls : calls[k] = entry
    THEN CHOOSE k \in DOMAIN calls : calls[k] = entry
    ELSE 0

Computations == {"signed_series", "zero", "ma"}

\* C6: when close or volume is invalid, verify_series is invoked on both
\* before any computation step, the call ends in an error and returns no
\* table.
C6_FailFast ==
    (pc = "done" /\ (Invalid(args.close) \/ Invalid(args.volume))) =>
        /\ error # ""
        /\ df = NoDataFrame
        /\ Position(<<"verify_series", "close">>) > 0
        /\ Position(<<"verify_series", "volume">>) > 0
        /\ \A k \in DOMAIN calls :
              calls[k][1] \in Computations =>
                  /\ Position(<<"verify_series", "close">>) < k
                  /\ Position(<<"verify_series", "volume">>) < k

\* the three sequences a call with offset 0 and no fill options computes
Unshifted ==
    Calculated(close, volume, sign0, length, signal, mamode, drift)

\* C1: a call with offset k # 0 returns a table whose tsv, signal and ratio
\* are those of the call with offset 0, each shifted by k positions.
C1_OffsetLaw ==
    (pc = "done" /\ offset # 0 /\ args.kwargs = NoKwargs) =>
        /\ error = ""
        /\ df.tsv = shift(Unshifted.tsv, offset)
        /\ df.signal = shift(Unshifted.signal_, offset)
        /\ df.ratio = shift(Unshifted.ratio, offset)

\* new is old with every null replaced by v and nothing else changed
FilledExactly(old, new, v) ==
    /\ DOMAIN new = DOMAIN old
    /\ \A i \in DOMAIN old :
          /\ ~isnull(new[i])
          /\ isnull(old[i]) => new[i] = v
          /\ ~isnull(old[i]) => new[i] = old[i]

\* C4: with a fillna value v and no fill_method, the fill step leaves no
\* null in tsv, signal and ratio, puts exactly v where a null was and
\* changes no other entry; the table returned holds these sequences.
C4_FillLaw ==
    [][/\ (/\ pc = "fill"
           /\ args.kwargs.has_fillna
           /\ ~args.kwargs.has_fill_method) =>
              /\ FilledExactly(tsv, tsv', args.kwargs.fillna)
              /\ FilledExactly(signal_, signal_', args.kwargs.fillna)
              /\ FilledExactly(ratio, ratio', args.kwargs.fillna)
       /\ pc = "return" =>
              /\ df'.tsv = tsv
              /\ df'.signal = signal_
              /\ df'.ratio = ratio]_vars

\* a returned table filled with 7: the warm-up nulls of all three columns
\* hold 7 and a computed tsv entry is kept
C4_Witness ==
    /\ pc = "done" /\ error = ""
    /\ args.kwargs.has_fillna /\ ~args.kwargs.has_fill_method
    /\ args.kwargs.fillna = Num(7)
    /\ isnull(Unshifted.tsv[0]) /\ df.tsv[0] = Num(7)
    /\ isnull(Unshifted.signal_[0]) /\ df.signal[0] = Num(7)
    /\ isnull(Unshifted.ratio[0]) /\ df.ratio[0] = Num(7)
    /\ \E i \in DOMAIN df.tsv :
          /\ ~isnull(Unshifted.tsv[i])
          /\ df.tsv[i] = Unshifted.tsv[i]
          /\ df.tsv[i] # Num(7)

\* the three sequences of a returned table for a close cl and a volume vol
\* under the parameters and fill options of this call
Outputs(cl, vol) ==
    LET r == Calculated(cl, vol, sign0, length, signal, mamode, drift)
    IN  [tsv |-> Filled(args.kwargs, r.tsv),
         signal |-> Filled(args.kwargs, r.signal_),
         ratio |-> Filled(args.kwargs, r.ratio)]

\* the volumes an input is changed to
OtherVolumes == {Num(-3), Num(4)}

\* the outputs before position j are those of this call
SameBefore(out, j) ==
    \A i \in DOMAIN df.tsv :
        i < j => /\ out.tsv[i] = df.tsv[i]
                 /\ out.signal[i] = df.signal[i]
                 /\ out.ratio[i] = df.ratio[i]

\* no output at a position i changes when one input at a position j > i does.
\* Any two inputs that agree up to i are joined by such changes.
NoLookAhead ==
    \A j \in DOMAIN close :
        /\ \A c \in ClosePrices \ {close[j]} :
              SameBefore(Outputs([close EXCEPT ![j] = c], volume), j)
        /\ \A v \in OtherVolumes :
              SameBefore(Outputs(close, [volume EXCEPT ![j] = v]), j)

\* the claim as first stated: under every option that returns a table,
\* backward fill included, the outputs at i are fixed by the inputs up to i
C7_Original == (pc = "done" /\ error = "") => NoLookAhead

\* C7: for every call that returns a table (offset 0, drift >= 1) with no
\* fill_method or a forward fill, and any fillna, two input pairs that agree
\* at all positions <= i give the same tsv, signal and ratio at position i.
C7_Causality ==
    (/\ pc = "done" /\ error = ""
     /\ args.kwargs.has_fill_method => args.kwargs.fill_method # "bfill")
        => NoLookAhead

\* a forward-filled table whose last tsv entry does change with the last
\* close, while nothing before it does
C7_Witness ==
    /\ pc = "done" /\ error = ""
    /\ args.kwargs.has_fill_method /\ args.kwargs.fill_method = "ffill"
    /\ \E c \in ClosePrices :
          LET j == SeriesLen - 1
              out == Outputs([close EXCEPT ![j] = c], volume)
          IN  /\ out.tsv[j] # df.tsv[j]
              /\ ~isnull(df.tsv[j])
              /\ SameBefore(out, j)

============================================================================
